---- MODULE Spec2Model ----
(***************************************************************************)
(* quickreplace (src/src/main.rs): a command-line text substitution tool.  *)
(* Text, patterns and console input are sequences of one-character         *)
(* strings; offsets are 0-based byte offsets as in the Rust source (the    *)
(* alphabets below are ASCII, so one character is one byte).               *)
(***************************************************************************)
EXTENDS Integers, Sequences, FiniteSets, TLC

\* ------------------------------------------------------------------ bounds
MaxTextLen == 4      \* longest text handed to replace() on its own
MaxDataLen == 3      \* longest input file of a whole run

\* --------------------------------------------------------------- alphabets
NL == "\n"
CR == "\r"
TextChars == {"a", "A", NL, CR}

\* console answers and command-line values used to drive the run
Answers == { <<" ", "Y", CR, NL>>, <<"y", "e", "s", NL>>, <<NL>>, <<>> }
Targets == { <<>>, <<"a">>, <<"a", "*">>, <<".">>, <<".", "*">>,
             <<"a", "a">>, <<"a", "*", "*">>, <<"*">>, <<"(">>, <<"a", "(">> }
Replacements == { <<>>, <<"x">>, <<"a", NL>> }
RunTargets == { <<"a">>, <<"a", "*">>, <<"(">> }
RunReplacements == { <<>>, <<"x">> }

SeqsUpTo(S, n) == UNION {[1..k -> S] : k \in 0..n}

\* &text[from..to] with 0-based byte offsets, `to` exclusive
Slice(s, from, to) == SubSeq(s, from + 1, to)

\* --------------------------------------------------- the regex collaborator
\* format!("(?i){}", target)
CaseInsensitivePrefix == <<"(", "?", "i", ")">>

FormatPattern(target, case_insensitive) ==
    IF case_insensitive THEN CaseInsensitivePrefix \o target ELSE target

\* ASCII simple case folding, as applied by the (?i) flag
FoldChar(c) == IF c = "A" THEN "a" ELSE c

HasFlagPrefix(p) ==
    /\ Len(p) >= 4
    /\ SubSeq(p, 1, 4) = CaseInsensitivePrefix

\* Parses the atoms of a pattern body: a literal or `.`, optionally followed
\* by one or more `*`.  The result is <<ok, atoms>>; ok is FALSE for a
\* repetition operator with nothing to repeat and for an unclosed group.
RECURSIVE ParseAtoms(_, _, _)
ParseAtoms(p, i, acc) ==
    IF i > Len(p) THEN <<TRUE, acc>>
    ELSE IF p[i] = "(" THEN <<FALSE, <<>>>>
    ELSE IF p[i] = "*" THEN
        IF acc = <<>> THEN <<FALSE, <<>>>>
        ELSE ParseAtoms(p, i + 1,
                 [acc EXCEPT ![Len(acc)] = [@ EXCEPT !.star = TRUE]])
    ELSE ParseAtoms(p, i + 1,
             Append(acc, [ch |-> p[i], any |-> (p[i] = "."), star |-> FALSE]))

\* Regex::new: Err (ok = FALSE) or a compiled matcher
RegexNew(p) ==
    LET ci == HasFlagPrefix(p)
        body == IF ci THEN SubSeq(p, 5, Len(p)) ELSE p
        parsed == ParseAtoms(body, 1, <<>>)
    IN  [ok |-> parsed[1], ci |-> ci, atoms |-> parsed[2]]

\* one atom against one character; `.` matches anything but a newline
AtomMatches(re, atom, c) ==
    IF atom.any THEN c # NL
    ELSE IF re.ci THEN FoldChar(atom.ch) = FoldChar(c)
    ELSE atom.ch = c

\* length of the longest run of characters from offset pos matching atom
RECURSIVE RunLen(_, _, _, _)
RunLen(re, atom, text, pos) ==
    IF pos < Len(text) /\ AtomMatches(re, atom, text[pos + 1])
    THEN 1 + RunLen(re, atom, text, pos + 1)
    ELSE 0

\* End offset of the leftmost-first match of atoms i.. anchored at pos, or -1.
\* A starred atom is greedy: the longest repetition is tried first.
RECURSIVE MatchFrom(_, _, _, _)
RECURSIVE TryStar(_, _, _, _, _)
MatchFrom(re, i, text, pos) ==
    IF i > Len(re.atoms) THEN pos
    ELSE IF re.atoms[i].star
         THEN TryStar(re, i, text, pos, RunLen(re, re.atoms[i], text, pos))
    ELSE IF pos < Len(text) /\ AtomMatches(re, re.atoms[i], text[pos + 1])
         THEN MatchFrom(re, i + 1, text, pos + 1)
    ELSE -1

TryStar(re, i, text, pos, k) ==
    LET e == MatchFrom(re, i + 1, text, pos + k)
    IN  IF e # -1 THEN e
        ELSE IF k = 0 THEN -1
        ELSE TryStar(re, i, text, pos, k - 1)

NoMatch == [found |-> FALSE, start |-> 0, end |-> 0]

\* leftmost match whose start is >= from
RECURSIVE FindAt(_, _, _)
FindAt(re, text, from) ==
    IF from > Len(text) THEN NoMatch
    ELSE LET e == MatchFrom(re, 1, text, from)
         IN  IF e # -1 THEN [found |-> TRUE, start |-> from, end |-> e]
             ELSE FindAt(re, text, from + 1)

\* The next match of the non-overlapping iteration: an empty match that
\* ends where the previous match ended is skipped by searching again one
\* unit further on.
NextMatch(re, text, at, last_match_end) ==
    LET m == FindAt(re, text, at)
    IN  IF m.found /\ m.start = m.end /\ m.end = last_match_end
        THEN FindAt(re, text, at + 1)
        ELSE m

\* replace_all with the closure recording the offset reached in the text
\* being built instead of the match's start in the original text
RECURSIVE ReplaceAllOutputOffsets(_, _, _, _, _, _, _)
ReplaceAllOutputOffsets(re, text, replacement, at, last_match_end, new, log) ==
    LET m == NextMatch(re, text, at, last_match_end)
        last_match == IF last_match_end = -1 THEN 0 ELSE last_match_end
    IN  IF ~m.found
        THEN [text |-> new \o Slice(text, last_match, Len(text)), log |-> log]
        ELSE ReplaceAllOutputOffsets(re, text, replacement, m.end, m.end,
                 new \o Slice(text, last_match, m.start) \o replacement,
                 Append(log, [offset |-> Len(new) + (m.start - last_match),
                              matched |-> Slice(text, m.start, m.end)]))

\* replace_all that does not copy the text after the last match
RECURSIVE ReplaceAllNoTail(_, _, _, _, _, _, _)
ReplaceAllNoTail(re, text, replacement, at, last_match_end, new, log) ==
    LET m == NextMatch(re, text, at, last_match_end)
        last_match == IF last_match_end = -1 THEN 0 ELSE last_match_end
    IN  IF ~m.found
        THEN [text |-> IF log = <<>> THEN text ELSE new, log |-> log]
        ELSE ReplaceAllNoTail(re, text, replacement, m.end, m.end,
                 new \o Slice(text, last_match, m.start) \o replacement,
                 Append(log, [offset |-> m.start,
                              matched |-> Slice(text, m.start, m.end)]))

\* Regex::replace_all with the closure of replace(): for every match the
\* unmatched slice before it is copied, the closure pushes
\* (start, matched text) on the log and returns the replacement, which is
\* appended literally; the tail is copied after the last match.
RECURSIVE ReplaceAll(_, _, _, _, _, _, _)
ReplaceAll(re, text, replacement, at, last_match_end, new, log) ==
    LET m == NextMatch(re, text, at, last_match_end)
        last_match == IF last_match_end = -1 THEN 0 ELSE last_match_end
    IN  IF ~m.found
        THEN [text |-> new \o Slice(text, last_match, Len(text)), log |-> log]
        ELSE ReplaceAll(re, text, replacement, m.end, m.end,
                 new \o Slice(text, last_match, m.start) \o replacement,
                 Append(log, [offset |-> m.start,
                              matched |-> Slice(text, m.start, m.end)]))

\* fn replace(target, replacement, text, case_insensitive)
replace(target, replacement, text, case_insensitive) ==
    LET regex == RegexNew(FormatPattern(target, case_insensitive))
    IN  IF ~regex.ok THEN [ok |-> FALSE, text |-> <<>>, log |-> <<>>]
        ELSE LET r == ReplaceAll(regex, text, replacement, 0, -1, <<>>, <<>>)
             IN  [ok |-> TRUE, text |-> r.text, log |-> r.log]

\* ------------------------------------------------------------ std helpers
\* str::lines: split after every "\n"; the "\n" and a "\r" right before it
\* are not part of the line; a last line without "\n" is kept as it is
StripCR(l) ==
    IF Len(l) > 0 /\ l[Len(l)] = CR THEN SubSeq(l, 1, Len(l) - 1) ELSE l

FirstNL(s) ==
    IF \E i \in 1..Len(s) : s[i] = NL
    THEN CHOOSE i \in 1..Len(s) : s[i] = NL /\ \A j \in 1..(i - 1) : s[j] # NL
    ELSE 0

RECURSIVE Lines(_)
Lines(s) ==
    IF s = <<>> THEN <<>>
    ELSE LET k == FirstNL(s)
         IN  IF k = 0 THEN <<s>>
             ELSE <<StripCR(SubSeq(s, 1, k - 1))>> \o Lines(SubSeq(s, k + 1, Len(s)))

IsWhitespace(c) == c \in {" ", NL, CR}

\* str::trim
RECURSIVE Trim(_)
Trim(s) ==
    IF s = <<>> THEN s
    ELSE IF IsWhitespace(s[1]) THEN Trim(Tail(s))
    ELSE IF IsWhitespace(s[Len(s)]) THEN Trim(SubSeq(s, 1, Len(s) - 1))
    ELSE s

\* str::to_lowercase
LowerChar(c) == CASE c = "Y" -> "y" [] c = "A" -> "a" [] OTHER -> c
ToLowercase(s) == [i \in 1..Len(s) |-> LowerChar(s[i])]

\* format!("{}", pos) for a usize
Digits == <<"0", "1", "2", "3", "4", "5", "6", "7", "8", "9">>
RECURSIVE ToDecimal(_)
ToDecimal(n) ==
    IF n < 10 THEN <<Digits[n + 1]>>
    ELSE ToDecimal(n \div 10) \o <<Digits[(n % 10) + 1]>>

\* Vec<String>::join(sep)
RECURSIVE Join(_, _)
Join(parts, sep) ==
    IF parts = <<>> THEN <<>>
    ELSE IF Len(parts) = 1 THEN parts[1]
    ELSE parts[1] \o sep \o Join(Tail(parts), sep)

\* ------------------------------------------------------------- parse_args
FlagCaseInsensitive ==
    <<"-", "-", "c", "a", "s", "e", "-", "i", "n", "s", "e", "n", "s", "i", "t", "i", "v", "e">>
FlagInteractive == <<"-", "-", "i", "n", "t", "e", "r", "a", "c", "t", "i", "v", "e">>
FlagPreview == <<"-", "-", "p", "r", "e", "v", "i", "e", "w">>
FlagLogFile == <<"-", "-", "l", "o", "g", "-", "f", "i", "l", "e">>

\* args.iter().position(|x| x == flag), 1-based; 0 stands for None
Position(args, flag) ==
    IF \E i \in 1..Len(args) : args[i] = flag
    THEN CHOOSE i \in 1..Len(args) :
             args[i] = flag /\ \A j \in 1..(i - 1) : args[j] # flag
    ELSE 0

\* args.drain(from..=to)
Drain(args, from, to) == SubSeq(args, 1, from - 1) \o SubSeq(args, to + 1, Len(args))

\* the flag's value and the arguments left once its first occurrence is removed
TakeFlag(args, flag) ==
    LET index == Position(args, flag)
    IN  IF index # 0 THEN [set |-> TRUE, rest |-> Drain(args, index, index)]
        ELSE [set |-> FALSE, rest |-> args]

NoLogFile == [some |-> FALSE, path |-> <<>>]

\* parse_args that only rejects too few positional arguments
parse_argsAtLeastFour(argv) ==
    LET ci == TakeFlag(argv, FlagCaseInsensitive)
        ia == TakeFlag(ci.rest, FlagInteractive)
        pv == TakeFlag(ia.rest, FlagPreview)
        index == Position(pv.rest, FlagLogFile)
        missing == index # 0 /\ ~(index + 1 <= Len(pv.rest))
        log_file == IF index # 0 /\ ~missing
                    THEN [some |-> TRUE, path |-> pv.rest[index + 1]]
                    ELSE NoLogFile
        args == IF index # 0 /\ ~missing
                THEN Drain(pv.rest, index, index + 1)
                ELSE pv.rest
    IN  IF missing THEN [err |-> "missing_log_file"]
        ELSE IF Len(args) < 4 THEN [err |-> "wrong_count"]
        ELSE [err |-> "none",
              target |-> args[1], replacement |-> args[2],
              filename |-> args[3], output |-> args[4],
              case_insensitive |-> ci.set, interactive |-> ia.set,
              preview |-> pv.set, log_file |-> log_file]

\* fn parse_args()
parse_args(argv) ==
    LET ci == TakeFlag(argv, FlagCaseInsensitive)
        ia == TakeFlag(ci.rest, FlagInteractive)
        pv == TakeFlag(ia.rest, FlagPreview)
        index == Position(pv.rest, FlagLogFile)
        missing == index # 0 /\ ~(index + 1 <= Len(pv.rest))
        log_file == IF index # 0 /\ ~missing
                    THEN [some |-> TRUE, path |-> pv.rest[index + 1]]
                    ELSE NoLogFile
        args == IF index # 0 /\ ~missing
                THEN Drain(pv.rest, index, index + 1)
                ELSE pv.rest
    IN  IF missing THEN [err |-> "missing_log_file"]
        ELSE IF Len(args) # 4 THEN [err |-> "wrong_count"]
        ELSE [err |-> "none",
              target |-> args[1], replacement |-> args[2],
              filename |-> args[3], output |-> args[4],
              case_insensitive |-> ci.set, interactive |-> ia.set,
              preview |-> pv.set, log_file |-> log_file]

\* "Position: {}, Matched: {}" for every record, joined by "\n"
LogLine(rec) ==
    <<"P", "o", "s", "i", "t", "i", "o", "n", ":", " ">> \o ToDecimal(rec.offset)
        \o <<",", " ", "M", "a", "t", "c", "h", "e", "d", ":", " ">> \o rec.matched

log_data(log) == Join([i \in 1..Len(log) |-> LogLine(log[i])], <<NL>>)

\* ------------------------------------------------------------------ state
VARIABLES
    argv,           \* env::args().skip(1)
    args,           \* the Arguments built by parse_args
    pc,             \* position in main
    exitCode,       \* -1 while running; 101 is a panic
    stderr,         \* kinds of the error messages printed
    prompts,        \* number of "Replace this line?" prompts printed
    stdin,          \* the answers read so far, one per read_line
    data,           \* contents of the input file
    replaced_data,
    log,
    final_data,
    outFile,        \* [writes, content]: fs::write calls that succeeded on args.output
    logFile         \* the same for args.log_file

vars == <<argv, args, pc, exitCode, stderr, prompts, stdin, data,
          replaced_data, log, final_data, outFile, logFile>>

Texts == SeqsUpTo(TextChars, MaxTextLen)
Datas == SeqsUpTo(TextChars, MaxDataLen)

NoFile == [writes |-> 0, content |-> <<>>]
NoArgs == [err |-> "unparsed"]

InputPath == <<"i">>
OutputPath == <<"o">>
LogPath == <<"l">>
ExtraArg == <<"e">>

\* command lines: options, then the positional values, then --log-file
OptionLists ==
    { f1 \o f2 \o f3 :
        f1 \in {<<>>, <<FlagCaseInsensitive>>},
        f2 \in {<<>>, <<FlagInteractive>>},
        f3 \in {<<>>, <<FlagPreview>>} }

PositionalLists ==
    { <<t, r, InputPath, OutputPath>> : t \in RunTargets, r \in RunReplacements }
    \cup { <<<<"a">>, <<"x">>, InputPath>>,
           <<<<"a">>, <<"x">>, InputPath, OutputPath, ExtraArg>> }

LogFileLists == { <<>>, <<FlagLogFile>>, <<FlagLogFile, LogPath>> }

CommandLines ==
    { o \o p \o l : o \in OptionLists, p \in PositionalLists, l \in LogFileLists }

Init ==
    /\ argv \in CommandLines
    /\ args = NoArgs
    /\ pc = "parse_args"
    /\ exitCode = -1
    /\ stderr = <<>>
    /\ prompts = 0
    /\ stdin = <<>>
    /\ data = <<>>
    /\ replaced_data = <<>>
    /\ log = <<>>
    /\ final_data = <<>>
    /\ outFile = NoFile
    /\ logFile = NoFile

\* std::process::exit(code) after eprintln of an error of the given kind
Fail(kind, code) ==
    /\ stderr' = Append(stderr, kind)
    /\ exitCode' = code
    /\ pc' = "done"

\* ---------------------------------------------------------------- actions
ParseArgsOk ==
    /\ pc = "parse_args"
    /\ parse_args(argv).err = "none"
    /\ args' = parse_args(argv)
    /\ pc' = "read"
    /\ UNCHANGED <<argv, exitCode, stderr, prompts, stdin, data, replaced_data,
                   log, final_data, outFile, logFile>>

ParseArgsMissingLogFile ==
    /\ pc = "parse_args"
    /\ parse_args(argv).err = "missing_log_file"
    /\ Fail("usage", 1)
    /\ UNCHANGED <<argv, args, prompts, stdin, data, replaced_data, log,
                   final_data, outFile, logFile>>

ParseArgsWrongCount ==
    /\ pc = "parse_args"
    /\ parse_args(argv).err = "wrong_count"
    /\ Fail("usage", 1)
    /\ UNCHANGED <<argv, args, prompts, stdin, data, replaced_data, log,
                   final_data, outFile, logFile>>

\* fs::read_to_string(&args.filename) returns Ok(text)
ReadOk ==
    /\ pc = "read"
    /\ \E text \in Datas : data' = text
    /\ pc' = "replace"
    /\ UNCHANGED <<argv, args, exitCode, stderr, prompts, stdin, replaced_data,
                   log, final_data, outFile, logFile>>

ReadErr ==
    /\ pc = "read"
    /\ Fail("read", 1)
    /\ UNCHANGED <<argv, args, prompts, stdin, data, replaced_data, log,
                   final_data, outFile, logFile>>

Replaced == replace(args.target, args.replacement, data, args.case_insensitive)

ReplaceOk ==
    /\ pc = "replace"
    /\ Replaced.ok
    /\ replaced_data' = Replaced.text
    /\ log' = Replaced.log
    /\ pc' = "mode"
    /\ UNCHANGED <<argv, args, exitCode, stderr, prompts, stdin, data,
                   final_data, outFile, logFile>>

ReplaceErr ==
    /\ pc = "replace"
    /\ ~Replaced.ok
    /\ Fail("replace", 1)
    /\ UNCHANGED <<argv, args, prompts, stdin, data, replaced_data, log,
                   final_data, outFile, logFile>>

\* a preview that prints and then goes on to save instead of returning
PreviewFallsThrough ==
    /\ pc = "mode"
    /\ args.preview
    /\ final_data' = replaced_data
    /\ pc' = "write"
    /\ UNCHANGED <<argv, args, exitCode, stderr, prompts, stdin, data,
                   replaced_data, log, outFile, logFile>>

\* if args.preview { println!(..); return; }
Preview ==
    /\ pc = "mode"
    /\ args.preview
    /\ exitCode' = 0
    /\ pc' = "done"
    /\ UNCHANGED <<argv, args, stderr, prompts, stdin, data, replaced_data, log,
                   final_data, outFile, logFile>>

\* The head of the `for line in replaced_data.lines()` loop once n lines are
\* resolved: the next line is printed with its prompt and read_line blocks,
\* or the loop is over and main goes on to save.
LoopHead(n) ==
    IF n < Len(Lines(replaced_data))
    THEN /\ prompts' = prompts + 1
         /\ pc' = "read_line"
    ELSE /\ prompts' = prompts
         /\ pc' = "write"

BeginInteractive ==
    /\ pc = "mode"
    /\ ~args.preview
    /\ args.interactive
    /\ final_data' = <<>>
    /\ LoopHead(0)
    /\ UNCHANGED <<argv, args, exitCode, stderr, stdin, data, replaced_data,
                   log, outFile, logFile>>

\* a loop body that pushes the line break only with an accepted line
LineResultDropsBreak(line, input) ==
    IF ToLowercase(Trim(input)) = <<"y">> THEN line \o <<NL>> ELSE <<>>

\* a loop body that accepts every answer starting with "y"
LineResultPrefix(line, input) ==
    (IF Trim(input) # <<>> /\ ToLowercase(Trim(input))[1] = "y"
     THEN line ELSE <<>>) \o <<NL>>

\* the body of the loop for one line and the answer read for it
LineResult(line, input) ==
    (IF ToLowercase(Trim(input)) = <<"y">> THEN line ELSE <<>>) \o <<NL>>

\* an answer step that saves the text accepted so far after every line
AnswerLineSaves ==
    /\ pc = "read_line"
    /\ \E input \in Answers :
          /\ stdin' = Append(stdin, input)
          /\ final_data' = final_data
                 \o LineResult(Lines(replaced_data)[Len(stdin) + 1], input)
    /\ outFile' = [writes |-> outFile.writes + 1, content |-> final_data']
    /\ LoopHead(Len(stdin) + 1)
    /\ UNCHANGED <<argv, args, exitCode, stderr, data, replaced_data, log,
                   logFile>>

\* an answer step in which rejecting a line also drops a match record
AnswerLineForgetsMatch ==
    /\ pc = "read_line"
    /\ \E input \in Answers :
          /\ stdin' = Append(stdin, input)
          /\ final_data' = final_data
                 \o LineResult(Lines(replaced_data)[Len(stdin) + 1], input)
          /\ log' = IF ToLowercase(Trim(input)) = <<"y">> \/ log = <<>>
                    THEN log ELSE SubSeq(log, 1, Len(log) - 1)
    /\ LoopHead(Len(stdin) + 1)
    /\ UNCHANGED <<argv, args, exitCode, stderr, data, replaced_data,
                   outFile, logFile>>

\* read_line returns Ok: a line of input, or nothing at end of input
AnswerLine ==
    /\ pc = "read_line"
    /\ \E input \in Answers :
          /\ stdin' = Append(stdin, input)
          /\ final_data' = final_data
                 \o LineResult(Lines(replaced_data)[Len(stdin) + 1], input)
    /\ LoopHead(Len(stdin) + 1)
    /\ UNCHANGED <<argv, args, exitCode, stderr, data, replaced_data, log,
                   outFile, logFile>>

\* read_line returns Err: unwrap() panics
ReadLinePanic ==
    /\ pc = "read_line"
    /\ Fail("panic", 101)
    /\ UNCHANGED <<argv, args, prompts, stdin, data, replaced_data, log,
                   final_data, outFile, logFile>>

Direct ==
    /\ pc = "mode"
    /\ ~args.preview
    /\ ~args.interactive
    /\ final_data' = replaced_data
    /\ pc' = "write"
    /\ UNCHANGED <<argv, args, exitCode, stderr, prompts, stdin, data,
                   replaced_data, log, outFile, logFile>>

\* fs::write(&args.output, &final_data) returns Ok; the statistics are printed
WriteOutputOk ==
    /\ pc = "write"
    /\ outFile' = [writes |-> outFile.writes + 1, content |-> final_data]
    /\ pc' = "log"
    /\ UNCHANGED <<argv, args, exitCode, stderr, prompts, stdin, data,
                   replaced_data, log, final_data, logFile>>

WriteOutputErr ==
    /\ pc = "write"
    /\ Fail("write", 1)
    /\ UNCHANGED <<argv, args, prompts, stdin, data, replaced_data, log,
                   final_data, outFile, logFile>>

NoLog ==
    /\ pc = "log"
    /\ ~args.log_file.some
    /\ exitCode' = 0
    /\ pc' = "done"
    /\ UNCHANGED <<argv, args, stderr, prompts, stdin, data, replaced_data, log,
                   final_data, outFile, logFile>>

WriteLogOk ==
    /\ pc = "log"
    /\ args.log_file.some
    /\ logFile' = [writes |-> logFile.writes + 1, content |-> log_data(log)]
    /\ exitCode' = 0
    /\ pc' = "done"
    /\ UNCHANGED <<argv, args, stderr, prompts, stdin, data, replaced_data, log,
                   final_data, outFile>>

\* a log-write failure that exits like the other write failure
WriteLogErrFatal ==
    /\ pc = "log"
    /\ args.log_file.some
    /\ stderr' = Append(stderr, "log")
    /\ exitCode' = 1
    /\ pc' = "done"
    /\ UNCHANGED <<argv, args, prompts, stdin, data, replaced_data, log,
                   final_data, outFile, logFile>>

\* the failure is printed and main returns normally
WriteLogErr ==
    /\ pc = "log"
    /\ args.log_file.some
    /\ stderr' = Append(stderr, "log")
    /\ exitCode' = 0
    /\ pc' = "done"
    /\ UNCHANGED <<argv, args, prompts, stdin, data, replaced_data, log,
                   final_data, outFile, logFile>>

Next ==
    \/ ParseArgsOk
    \/ ParseArgsMissingLogFile
    \/ ParseArgsWrongCount
    \/ ReadOk
    \/ ReadErr
    \/ ReplaceOk
    \/ ReplaceErr
    \/ Preview
    \/ BeginInteractive
    \/ AnswerLine
    \/ ReadLinePanic
    \/ Direct
    \/ WriteOutputOk
    \/ WriteOutputErr
    \/ NoLog
    \/ WriteLogOk
    \/ WriteLogErr

Spec == Init /\ [][Next]_vars

\* ------------------------------------------------- replace() on its own
\* main just before its call of replace(), for a wider range of patterns,
\* replacements and texts
EngineCommandLines ==
    { o \o <<t, r, InputPath, OutputPath>> :
        o \in {<<>>, <<FlagCaseInsensitive>>}, t \in Targets, r \in Replacements }

InitEngine ==
    /\ argv \in EngineCommandLines
    /\ args = parse_args(argv)
    /\ pc = "replace"
    /\ exitCode = -1
    /\ stderr = <<>>
    /\ prompts = 0
    /\ stdin = <<>>
    /\ data \in Texts
    /\ replaced_data = <<>>
    /\ log = <<>>
    /\ final_data = <<>>
    /\ outFile = NoFile
    /\ logFile = NoFile

NextEngine ==
    \/ ReplaceOk
    \/ ReplaceErr

SpecEngine == InitEngine /\ [][NextEngine]_vars


\* ============================================================== properties
Contains(seq, x) == \E i \in 1..Len(seq) : seq[i] = x

CountNL(s) == Cardinality({i \in 1..Len(s) : s[i] = NL})

NothingWritten == outFile.writes = 0 /\ logFile.writes = 0

PreviewFlagSet == Contains(argv, FlagPreview)

\* the interactive loop is over and main is about to save
ReviewDone == pc = "write" /\ args.interactive

\* C1 as stated: in every run with the preview flag set, whatever the other
\* flags, the run ends with exit code 0, writes neither the output file nor
\* the log file and issues no prompt.
CE_C1 ==
    PreviewFlagSet =>
        /\ NothingWritten
        /\ prompts = 0
        /\ pc = "done" => exitCode = 0

\* C1 amended: in every run with the preview flag set no file is written and
\* no prompt is issued; the run ends with exit code 0 when no error was
\* reported (arguments parsed, input read, pattern compiled) and with exit
\* code 1 otherwise.
Theorem_C1 ==
    PreviewFlagSet =>
        /\ NothingWritten
        /\ prompts = 0
        /\ pc = "done" => exitCode = (IF stderr = <<>> THEN 0 ELSE 1)

Witness_C1 ==
    /\ PreviewFlagSet
    /\ pc = "done"
    /\ exitCode = 0
    /\ args.interactive
    /\ args.log_file.some
    /\ Len(log) >= 2

\* C2 as stated: after interactive review the final text has as many line
\* breaks as the rewritten text, with or without a trailing newline.
CE_C2 == ReviewDone => CountNL(final_data) = CountNL(replaced_data)

Unterminated(s) == s # <<>> /\ s[Len(s)] # NL

\* C2 amended: after interactive review the final text has as many line
\* breaks as the rewritten text when that text is empty or ends with a
\* newline, and one more when its last line has no terminating newline.
Theorem_C2 ==
    ReviewDone =>
        CountNL(final_data) =
            CountNL(replaced_data) + (IF Unterminated(replaced_data) THEN 1 ELSE 0)

Witness_C2 ==
    /\ ReviewDone
    /\ Unterminated(replaced_data)
    /\ CountNL(replaced_data) >= 1
    /\ \E i \in 1..Len(stdin) : stdin[i] = <<>>

\* the answers that read as "y" once trimmed and lower-cased
YesAnswers == { <<"y", NL>>, <<"Y", NL>>, <<" ", "Y", CR, NL>> }

RECURSIVE Pieces(_, _, _)
Pieces(lines, answers, n) ==
    IF n = 0 THEN <<>>
    ELSE Pieces(lines, answers, n - 1)
             \o (IF answers[n] \in YesAnswers THEN lines[n] ELSE <<>>) \o <<NL>>

\* C3: in interactive mode the final text is, in line order, one
\* newline-terminated piece per answered line: the line's content when its
\* answer is "y" (trimmed, any case) and nothing for any other answer; once
\* all N lines are answered it has exactly N line breaks.
Theorem_C3 ==
    /\ (args.err = "none" /\ args.interactive /\ pc \in {"read_line", "write"}) =>
          /\ Len(stdin) <= Len(Lines(replaced_data))
          /\ final_data = Pieces(Lines(replaced_data), stdin, Len(stdin))
    /\ ReviewDone =>
          /\ Len(stdin) = Len(Lines(replaced_data))
          /\ CountNL(final_data) = Len(Lines(replaced_data))

Witness_C3 ==
    /\ ReviewDone
    /\ Len(stdin) = 2
    /\ stdin[1] = <<"y", "e", "s", NL>>
    /\ stdin[2] = <<" ", "Y", CR, NL>>
    /\ Lines(replaced_data)[1] # <<>>
    /\ Lines(replaced_data)[2] # <<>>

\* C4: an output-write failure ends the run with exit code 1 and the log
\* file is never written; a log-write failure after a successful output
\* write leaves exit code 0 and the output file holding the final text.
Theorem_C4 ==
    /\ Contains(stderr, "write") =>
          /\ pc = "done"
          /\ exitCode = 1
          /\ NothingWritten
    /\ Contains(stderr, "log") =>
          /\ pc = "done"
          /\ exitCode = 0
          /\ outFile.writes = 1
          /\ outFile.content = final_data
          /\ logFile.writes = 0

Witness_C4 ==
    /\ Contains(stderr, "log")
    /\ pc = "done"
    /\ outFile.content # <<>>
    /\ outFile.content # data

\* C5: the output file is written at most once and only after every line is
\* resolved: while a line awaits its answer (and after a crash of the review)
\* neither file has been written.
Theorem_C5 ==
    /\ outFile.writes <= 1
    /\ pc = "read_line" => NothingWritten
    /\ exitCode = 101 => NothingWritten
    /\ (outFile.writes > 0 /\ args.interactive) =>
          Len(stdin) = Len(Lines(replaced_data))

Witness_C5 ==
    /\ pc = "read_line"
    /\ Len(stdin) >= 2
    /\ final_data # <<>>

\* C6: a failed read of a confirmation never crashes the run once earlier
\* lines have been processed.
CE_C6 == ~(exitCode = 101 /\ Len(stdin) >= 1)

\* C7: every record's text is the slice of the original text at its offset,
\* and the records are in strictly increasing offset order with
\* non-overlapping ranges, case-sensitive or not.
Theorem_C7 ==
    pc = "mode" =>
        /\ \A i \in 1..Len(log) :
              /\ log[i].offset + Len(log[i].matched) <= Len(data)
              /\ Slice(data, log[i].offset, log[i].offset + Len(log[i].matched))
                     = log[i].matched
        /\ \A i \in 1..(Len(log) - 1) :
              /\ log[i].offset < log[i + 1].offset
              /\ log[i].offset + Len(log[i].matched) <= log[i + 1].offset

Witness_C7 ==
    /\ pc = "mode"
    /\ args.case_insensitive
    /\ Len(log) >= 2
    /\ log[1].matched = <<"A", "a">>
    /\ log[2].offset > 2

ExpectedLogLine(rec) ==
    <<"P", "o", "s", "i", "t", "i", "o", "n", ":", " ">> \o ToDecimal(rec.offset)
        \o <<",", " ", "M", "a", "t", "c", "h", "e", "d", ":", " ">> \o rec.matched

RECURSIVE ExpectedLog(_)
ExpectedLog(recs) ==
    IF recs = <<>> THEN <<>>
    ELSE IF Len(recs) = 1 THEN ExpectedLogLine(recs[1])
    ELSE ExpectedLogLine(recs[1]) \o <<NL>> \o ExpectedLog(Tail(recs))

\* C8: the log written is a function of pattern, replacement, text and case
\* flag alone, one "Position: <offset>, Matched: <text>" entry per match in
\* match order; it is the same whatever the answers given in interactive
\* mode, and the same as in a direct run.
Theorem_C8 ==
    logFile.writes > 0 =>
        logFile.content =
            ExpectedLog(replace(args.target, args.replacement, data,
                                args.case_insensitive).log)

Witness_C8 ==
    /\ logFile.writes = 1
    /\ args.interactive
    /\ Len(log) >= 2
    /\ Len(stdin) >= 2
    /\ \A i \in 1..Len(stdin) : stdin[i] \notin YesAnswers
    /\ CountNL(logFile.content) = Len(log) - 1

Flags == {FlagCaseInsensitive, FlagInteractive, FlagPreview, FlagLogFile}

\* --log-file is the last argument
LogFileValueMissing == argv # <<>> /\ argv[Len(argv)] = FlagLogFile

PositionalCount ==
    Cardinality({i \in 1..Len(argv) :
                    /\ argv[i] \notin Flags
                    /\ (i = 1 \/ argv[i - 1] # FlagLogFile)})

UsageError == LogFileValueMissing \/ PositionalCount # 4

FailedCleanly ==
    /\ pc = "done"
    /\ exitCode = 1
    /\ NothingWritten
    /\ prompts = 0

\* C9: a usage error, an input-file read failure and a pattern-compile
\* failure each end the run with exit code 1, no file written and no prompt
\* issued.
Theorem_C9 ==
    /\ (UsageError /\ pc # "parse_args") => (FailedCleanly /\ stderr = <<"usage">>)
    /\ Contains(stderr, "usage") => (FailedCleanly /\ UsageError)
    /\ Contains(stderr, "read") => FailedCleanly
    /\ Contains(stderr, "replace") => FailedCleanly
    /\ (args.err = "none" /\ pc \notin {"parse_args", "read", "replace"}
            /\ ~Contains(stderr, "read")
            /\ ~RegexNew(FormatPattern(args.target, args.case_insensitive)).ok)
          => (FailedCleanly /\ stderr = <<"replace">>)

Witness_C9 ==
    /\ pc = "done"
    /\ stderr = <<"replace">>
    /\ args.interactive
    /\ args.log_file.some
    /\ data # <<>>

RECURSIVE Rebuild(_, _, _, _)
Rebuild(text, recs, repl, from) ==
    IF recs = <<>> THEN Slice(text, from, Len(text))
    ELSE Slice(text, from, recs[1].offset) \o repl
             \o Rebuild(text, Tail(recs), repl,
                        recs[1].offset + Len(recs[1].matched))

MatchesNothing ==
    LET re == RegexNew(FormatPattern(args.target, args.case_insensitive))
    IN  \A p \in 0..Len(data) : MatchFrom(re, 1, data, p) = -1

\* C10: the rewritten text is the original text with exactly the recorded
\* ranges replaced by the literal replacement and every other slice kept;
\* when the pattern matches nothing the text is unchanged and there is no
\* record.
Theorem_C10 ==
    pc = "mode" =>
        /\ replaced_data = Rebuild(data, log, args.replacement, 0)
        /\ MatchesNothing => (replaced_data = data /\ log = <<>>)
        /\ log = <<>> => replaced_data = data

Witness_C10 ==
    /\ pc = "mode"
    /\ Len(log) = 2
    /\ args.replacement = <<"a", NL>>
    /\ log[1].offset = 1
    /\ log[2].offset = 3
    /\ Len(data) = 4

====
